---- MODULE Spec2Model ----
\* Cart Service of fed-2-backend (application/cart.ts) over the Cart Store.
\*
\* Every request is one handler run on a request slot.  A handler is cut at its
\* awaits: one action is one store call together with the synchronous
\* continuation that runs when the call settles.  The Cart collection follows
\* the specification's data model and resource model: one document per cart,
\* atomic single-document read and write, userId unique, quantity not
\* validated.  A store call may reject; at most MaxFaults do.
EXTENDS Integers, Sequences, FiniteSets, TLC

VARIABLES
    carts,        \* the Cart collection: a set of documents [id, userId, items]
    pc,           \* per slot: the await the handler is suspended at
    op,           \* per slot: the route of the request
    userId,       \* per slot: getAuth(req).userId
    productId,    \* per slot: req.body.productId
    quantity,     \* per slot: req.body.quantity
    cart,         \* per slot: the handler's local `cart` document
    saveState,    \* per slot: the promise of the handler's cart.save()
    resp,         \* per slot: what the handler answered
    storeFailed,  \* per slot: a store call of this request has rejected
    started,      \* requests received so far
    faults,       \* store failures injected so far
    latest,       \* the slot of the latest request that arrived with none in flight
    pre,          \* the Cart collection when that request arrived
    addsDone,     \* per user and product: Add requests answered with a cart
    otherMut,     \* per user: an UpdateQuantity or RemoveItem request was received
    catalog,      \* the Product collection: a set of documents
    lreq,         \* the listing request: req.params.slug and req.query
    lpc,          \* the await getShopProducts is suspended at
    lfilter,      \* getShopProducts' local `filter`
    lresp,        \* what getShopProducts answered
    lprev         \* the answer to the previous page request of the same listing

cartVars == <<carts, pc, op, userId, productId, quantity, cart, saveState, resp,
              storeFailed, started, latest, pre, addsDone, otherMut>>

listVars == <<catalog, lreq, lpc, lfilter, lresp, lprev>>

vars == <<carts, pc, op, userId, productId, quantity, cart, saveState, resp,
          storeFailed, started, faults, latest, pre, addsDone, otherMut,
          catalog, lreq, lpc, lfilter, lresp, lprev>>

\* ---------------------------------------------------------------- bounds

MaxRequests == 2
MaxSeqRequests == 3
MaxConc == 2
MaxFaults == 1
MaxProducts == 2

Procs == 1..MaxConc
Users == {"u1", "u2"}
Products == {"p1", "p2"}
\* req.body.quantity is not validated: any number may arrive.
Quantities == {-1, 0, 5}
Ops == {"Get", "Add", "UpdateQuantity", "RemoveItem"}

\* ---------------------------------------------------------------- documents

NoCart == [id |-> 0, items |-> <<>>]
NoResp == [status |-> "none", body |-> <<>>]

CartItem(p, q) == [product |-> p, quantity |-> q]

Found(u) == {c \in carts : c.userId = u}

\* Cart.findOne({ userId }): the documents the query may return (null when none).
FindOne(u) ==
    IF Found(u) = {} THEN {NoCart}
    ELSE {[id |-> c.id, items |-> c.items] : c \in Found(u)}

\* The unique index on userId: Cart.create rejects a second cart of a user.
DuplicateKeyNever(u) == FALSE

DuplicateKey(u) == Found(u) # {}

\* Cart.create({ userId, items: [] }): the document inserted.
NewCart(u) == [id |-> Cardinality(carts) + 1, userId |-> u, items |-> <<>>]

\* cart.save(): the stored document of the same id takes the local items.
SaveDoc(store, doc) ==
    {IF c.id = doc.id THEN [c EXCEPT !.items = doc.items] ELSE c : c \in store}

\* cart.items.find(i => i.product.toString() === productId): index of the first
\* match, 0 when there is none.
FindItem(items, p) ==
    IF \E i \in 1..Len(items) : items[i].product = p
    THEN CHOOSE i \in 1..Len(items) :
            /\ items[i].product = p
            /\ \A j \in 1..(i - 1) : items[j].product # p
    ELSE 0

AddMutateAlwaysPush(items, p) == Append(items, CartItem(p, 1))

AddMutateNewFirst(items, p) ==
    IF FindItem(items, p) # 0
    THEN [items EXCEPT ![FindItem(items, p)].quantity = @ + 1]
    ELSE <<CartItem(p, 1)>> \o items

\* addToCart: existingItem.quantity += 1, or push { product, quantity: 1 }.
AddMutate(items, p) ==
    IF FindItem(items, p) # 0
    THEN [items EXCEPT ![FindItem(items, p)].quantity = @ + 1]
    ELSE Append(items, CartItem(p, 1))

SetQuantityClamped(items, p, q) ==
    [items EXCEPT ![FindItem(items, p)].quantity = IF q < 1 THEN 1 ELSE q]

\* updateQuantity: item.quantity = quantity.
SetQuantity(items, p, q) ==
    [items EXCEPT ![FindItem(items, p)].quantity = q]

PullItemFirst(items, p) ==
    IF items = <<>> THEN items ELSE Tail(items)

\* reomveItem: cart.items.pull({ product: productId }).
PullItem(items, p) ==
    SelectSeq(items, LAMBDA it : it.product # p)

\* ---------------------------------------------------------------- strings

\* A string is the sequence of its characters.  A query parameter that was
\* not sent is undefined.
Undefined == <<"undefined">>

DigitChars == {"0", "1", "2", "3", "4", "5", "6", "7", "8", "9"}

DigitVal(c) ==
    CASE c = "0" -> 0 [] c = "1" -> 1 [] c = "2" -> 2 [] c = "3" -> 3
      [] c = "4" -> 4 [] c = "5" -> 5 [] c = "6" -> 6 [] c = "7" -> 7
      [] c = "8" -> 8 [] c = "9" -> 9

RECURSIVE SkipSpace(_)
SkipSpace(s) ==
    IF s # <<>> /\ Head(s) = " " THEN SkipSpace(Tail(s)) ELSE s

RECURSIVE DigitsValue(_, _)
DigitsValue(s, acc) ==
    IF s # <<>> /\ Head(s) \in DigitChars
    THEN DigitsValue(Tail(s), 10 * acc + DigitVal(Head(s)))
    ELSE acc

NaN == [nan |-> TRUE, val |-> 0]
Num(n) == [nan |-> FALSE, val |-> n]

\* parseInt(s, 10): leading white space, an optional sign, then the longest
\* run of digits; NaN when there is no digit.
ParseInt(s) ==
    LET t == SkipSpace(s)
        signed == t # <<>> /\ Head(t) \in {"-", "+"}
        u == IF signed THEN Tail(t) ELSE t
    IN  IF u = <<>> \/ Head(u) \notin DigitChars THEN NaN
        ELSE IF signed /\ Head(t) = "-" THEN Num(0 - DigitsValue(u, 0))
        ELSE Num(DigitsValue(u, 0))

\* x || d on a number: NaN and 0 are falsy.
OrElse(x, d) == IF x.nan \/ x.val = 0 THEN d ELSE x.val

Max(a, b) == IF a >= b THEN a ELSE b
Min(a, b) == IF a <= b THEN a ELSE b

LowerChar(c) ==
    CASE c = "A" -> "a" [] c = "B" -> "b" [] c = "R" -> "r" [] OTHER -> c

\* String.prototype.toLowerCase
ToLowerCase(s) == [i \in 1..Len(s) |-> LowerChar(s[i])]

RECURSIVE TrimEnd(_)
TrimEnd(s) ==
    IF s # <<>> /\ s[Len(s)] = " " THEN TrimEnd(SubSeq(s, 1, Len(s) - 1)) ELSE s

\* String.prototype.trim
Trim(s) == TrimEnd(SkipSpace(s))

\* ---------------------------------------------------------------- pagination

DefaultPage == 1
DefaultPerPage == 24
MinPerPage == 1
MaxPerPage == 100

\* const { page = "1" } = req.query;
\* Math.max(parseInt(page as string, 10) || 1, 1)
PageNum(page) ==
    Max(OrElse(ParseInt(IF page = Undefined THEN <<"1">> ELSE page), DefaultPage),
        DefaultPage)

PerPageNoCap(limit) ==
    Max(OrElse(ParseInt(IF limit = Undefined THEN <<"2", "4">> ELSE limit),
               DefaultPerPage),
        MinPerPage)

\* const { limit = "24" } = req.query;
\* Math.min(Math.max(parseInt(limit as string, 10) || 24, 1), 100)
PerPage(limit) ==
    Min(Max(OrElse(ParseInt(IF limit = Undefined THEN <<"2", "4">> ELSE limit),
                   DefaultPerPage),
            MinPerPage),
        MaxPerPage)

\* const skip = (pageNum - 1) * perPage
Skip(page, limit) == (PageNum(page) - 1) * PerPage(limit)

TotalPagesFloor(total, perPage) == total \div perPage

\* Math.ceil(total / perPage)
TotalPages(total, perPage) == (total + perPage - 1) \div perPage

\* ---------------------------------------------------------------- catalog

\* The Category and Color collections.  Stored slugs are unique, lower case
\* and trimmed.
Categories == {[id |-> 1, slug |-> <<"a">>], [id |-> 2, slug |-> <<"b">>]}
Colors == {[id |-> 1, slug |-> <<"r">>]}

ProductIds == 1..MaxProducts
Prices == {10, 20}

\* productSchema: categoryId is required, colorId is optional (0: none).  The
\* schema declares no createdAt and no timestamps; `created` is the instant
\* the document was inserted, which no field of the document holds.
ProductFields == [categoryId : {1, 2}, colorId : {0, 1}, price : Prices]

\* The catalogs of MaxProducts products, inserted in the order of their ids.
Catalogs ==
    {{[id |-> i, categoryId |-> f[i].categoryId, colorId |-> f[i].colorId,
       price |-> f[i].price, created |-> i] : i \in ProductIds} :
        f \in [ProductIds -> ProductFields]}

NoListReq ==
    [slug |-> Undefined, color |-> Undefined, sort |-> "undefined",
     page |-> Undefined, limit |-> Undefined, exclude |-> 0]
NoFilter == [exclude |-> 0, categoryId |-> 0, colorId |-> 0]
NoListResp ==
    [status |-> "none", products |-> <<>>,
     pagination |-> [total |-> 0, page |-> 0, perPage |-> 0, totalPages |-> 0]]

\* ---------------------------------------------------------------- state

Init ==
    /\ carts = {}
    /\ pc = [p \in Procs |-> "idle"]
    /\ op = [p \in Procs |-> "Get"]
    /\ userId = [p \in Procs |-> "u1"]
    /\ productId = [p \in Procs |-> "p1"]
    /\ quantity = [p \in Procs |-> 0]
    /\ cart = [p \in Procs |-> NoCart]
    /\ saveState = [p \in Procs |-> "none"]
    /\ resp = [p \in Procs |-> NoResp]
    /\ storeFailed = [p \in Procs |-> FALSE]
    /\ started = 0
    /\ faults = 0
    /\ latest = 1
    /\ pre = {}
    /\ addsDone = [u \in Users |-> [p \in Products |-> 0]]
    /\ otherMut = [u \in Users |-> FALSE]
    /\ catalog = {}
    /\ lreq = NoListReq
    /\ lpc = "idle"
    /\ lfilter = NoFilter
    /\ lresp = NoListResp
    /\ lprev = NoListResp

\* A slot is free when its handler has answered and its save has settled.
Free(p) == pc[p] \in {"idle", "done"} /\ saveState[p] # "pending"

Quiet == \A p \in Procs : Free(p)

\* Set by the router when a request arrives, read-only to the cart handlers;
\* no cart handler touches the listing.
reqVars == <<op, userId, productId, quantity, started, latest, pre, otherMut,
             listVars>>

\* res.json(body) / res.status(404).json(...) / next(err): the handler ends.
Respond(p, status, body) ==
    /\ resp' = [resp EXCEPT ![p] = [status |-> status, body |-> body]]
    /\ pc' = [pc EXCEPT ![p] = "done"]

\* An awaited store call rejects: the catch block hands the error to next().
Reject(p) ==
    /\ faults < MaxFaults
    /\ faults' = faults + 1
    /\ storeFailed' = [storeFailed EXCEPT ![p] = TRUE]
    /\ Respond(p, "fault", <<>>)
    /\ UNCHANGED <<carts, cart, saveState, reqVars, addsDone>>

\* Cart.create rejects on the unique index: same path as any rejection.
RejectDuplicate(p) ==
    /\ DuplicateKey(userId[p])
    /\ storeFailed' = [storeFailed EXCEPT ![p] = TRUE]
    /\ Respond(p, "fault", <<>>)
    /\ UNCHANGED <<carts, cart, saveState, faults, reqVars, addsDone>>

\* ---------------------------------------------------------------- router

\* cartRouter: a request arrives and its handler is entered.  It takes the
\* lowest free slot; at most `limit` requests arrive in all.
Receive(p, limit) ==
    /\ Free(p)
    /\ \A q \in Procs : Free(q) => p <= q
    /\ started < limit
    /\ \E o \in Ops, u \in Users, pid \in Products, q \in Quantities :
        /\ o = "Get" => pid = "p1"
        /\ o # "UpdateQuantity" => q = 0
        /\ op' = [op EXCEPT ![p] = o]
        /\ userId' = [userId EXCEPT ![p] = u]
        /\ productId' = [productId EXCEPT ![p] = pid]
        /\ quantity' = [quantity EXCEPT ![p] = q]
        /\ otherMut' = IF o \in {"UpdateQuantity", "RemoveItem"}
                       THEN [otherMut EXCEPT ![u] = TRUE]
                       ELSE otherMut
    /\ started' = started + 1
    /\ latest' = IF Quiet THEN p ELSE latest
    /\ pre' = IF Quiet THEN carts ELSE pre
    /\ pc' = [pc EXCEPT ![p] = "findOne"]
    /\ cart' = [cart EXCEPT ![p] = NoCart]
    /\ saveState' = [saveState EXCEPT ![p] = "none"]
    /\ resp' = [resp EXCEPT ![p] = NoResp]
    /\ storeFailed' = [storeFailed EXCEPT ![p] = FALSE]
    /\ UNCHANGED <<carts, faults, addsDone, listVars>>

Request(p) == Receive(p, MaxRequests)

\* A request that arrives when every earlier one has answered and its save
\* has settled.
RequestSeq(p) == Quiet /\ Receive(p, MaxSeqRequests)

\* ---------------------------------------------------------------- getCart

\* await Cart.findOne({ userId }).populate("items.product"); if (!cart) ...
getCart_findOne(p) ==
    /\ pc[p] = "findOne" /\ op[p] = "Get"
    /\ \/ /\ \E c \in FindOne(userId[p]) :
               /\ cart' = [cart EXCEPT ![p] = c]
               /\ IF c = NoCart
                  THEN /\ pc' = [pc EXCEPT ![p] = "create"]
                       /\ UNCHANGED resp
                  ELSE Respond(p, "ok", c.items)
          /\ UNCHANGED <<carts, saveState, storeFailed, faults, reqVars, addsDone>>
       \/ Reject(p)

\* cart = await Cart.create({ userId, items: [] }); res.json(cart)
getCart_create(p) ==
    /\ pc[p] = "create" /\ op[p] = "Get"
    /\ \/ /\ ~DuplicateKey(userId[p])
          /\ carts' = carts \cup {NewCart(userId[p])}
          /\ cart' = [cart EXCEPT ![p] = [id |-> NewCart(userId[p]).id, items |-> <<>>]]
          /\ Respond(p, "ok", <<>>)
          /\ UNCHANGED <<saveState, storeFailed, faults, reqVars, addsDone>>
       \/ RejectDuplicate(p)
       \/ Reject(p)

getCart(p) == getCart_findOne(p) \/ getCart_create(p)

\* ---------------------------------------------------------------- addToCart

\* The continuation of addToCart once `cart` is in hand: mutate the items,
\* call cart.save() without awaiting it, and await cart.populate(...).
addToCart_mutate(p, c) ==
    /\ cart' = [cart EXCEPT ![p] = [c EXCEPT !.items = AddMutate(c.items, productId[p])]]
    /\ saveState' = [saveState EXCEPT ![p] = "pending"]
    /\ pc' = [pc EXCEPT ![p] = "populate"]

\* let cart = await Cart.findOne({ userId }); if (!cart) ...
addToCart_findOne(p) ==
    /\ pc[p] = "findOne" /\ op[p] = "Add"
    /\ \/ /\ \E c \in FindOne(userId[p]) :
               IF c = NoCart
               THEN /\ pc' = [pc EXCEPT ![p] = "create"]
                    /\ cart' = [cart EXCEPT ![p] = c]
                    /\ UNCHANGED saveState
               ELSE addToCart_mutate(p, c)
          /\ UNCHANGED <<carts, resp, storeFailed, faults, reqVars, addsDone>>
       \/ Reject(p)

\* cart = await Cart.create({ userId, items: [] }); then the continuation.
addToCart_create(p) ==
    /\ pc[p] = "create" /\ op[p] = "Add"
    /\ \/ /\ ~DuplicateKey(userId[p])
          /\ carts' = carts \cup {NewCart(userId[p])}
          /\ addToCart_mutate(p, [id |-> NewCart(userId[p]).id, items |-> <<>>])
          /\ UNCHANGED <<resp, storeFailed, faults, reqVars, addsDone>>
       \/ RejectDuplicate(p)
       \/ Reject(p)

\* cart.save() settles.  Nothing awaits it: a rejection reaches neither the
\* catch block nor the response.
addToCart_save(p) ==
    /\ saveState[p] = "pending" /\ op[p] = "Add"
    /\ \/ /\ carts' = SaveDoc(carts, cart[p])
          /\ saveState' = [saveState EXCEPT ![p] = "ok"]
          /\ UNCHANGED <<storeFailed, faults>>
       \/ /\ faults < MaxFaults
          /\ faults' = faults + 1
          /\ storeFailed' = [storeFailed EXCEPT ![p] = TRUE]
          /\ saveState' = [saveState EXCEPT ![p] = "failed"]
          /\ UNCHANGED carts
    /\ UNCHANGED <<pc, cart, resp, reqVars, addsDone>>

\* const populatedCart = await cart.populate("items.product"); res.json(...)
addToCart_populate(p) ==
    /\ pc[p] = "populate" /\ op[p] = "Add"
    /\ \/ /\ Respond(p, "ok", cart[p].items)
          /\ addsDone' = [addsDone EXCEPT ![userId[p]][productId[p]] = @ + 1]
          /\ UNCHANGED <<carts, cart, saveState, storeFailed, faults, reqVars>>
       \/ Reject(p)

addToCart(p) ==
    \/ addToCart_findOne(p)
    \/ addToCart_create(p)
    \/ addToCart_save(p)
    \/ addToCart_populate(p)

\* ---------------------------------------------------------------- updateQuantity

updateQuantity_findOne_upsert(p) ==
    /\ pc[p] = "findOne" /\ op[p] = "UpdateQuantity"
    /\ \/ /\ \E c \in FindOne(userId[p]) :
               IF c = NoCart
               THEN /\ Respond(p, "notfound", <<>>)
                    /\ UNCHANGED cart
               ELSE /\ cart' = [cart EXCEPT ![p] =
                          [c EXCEPT !.items =
                              IF FindItem(c.items, productId[p]) = 0
                              THEN Append(c.items, CartItem(productId[p], quantity[p]))
                              ELSE SetQuantity(c.items, productId[p], quantity[p])]]
                    /\ pc' = [pc EXCEPT ![p] = "save"]
                    /\ UNCHANGED resp
          /\ UNCHANGED <<carts, saveState, storeFailed, faults, reqVars, addsDone>>
       \/ Reject(p)

\* let cart = await Cart.findOne({ userId }); 404 without a cart, 404 without
\* the item; else item.quantity = quantity and await cart.save().
updateQuantity_findOne(p) ==
    /\ pc[p] = "findOne" /\ op[p] = "UpdateQuantity"
    /\ \/ /\ \E c \in FindOne(userId[p]) :
               IF c = NoCart
               THEN /\ Respond(p, "notfound", <<>>)
                    /\ UNCHANGED cart
               ELSE IF FindItem(c.items, productId[p]) = 0
               THEN /\ Respond(p, "notfound", <<>>)
                    /\ cart' = [cart EXCEPT ![p] = c]
               ELSE /\ cart' = [cart EXCEPT ![p] =
                          [c EXCEPT !.items = SetQuantity(c.items, productId[p], quantity[p])]]
                    /\ pc' = [pc EXCEPT ![p] = "save"]
                    /\ UNCHANGED resp
          /\ UNCHANGED <<carts, saveState, storeFailed, faults, reqVars, addsDone>>
       \/ Reject(p)

\* await cart.save()
updateQuantity_save(p) ==
    /\ pc[p] = "save" /\ op[p] = "UpdateQuantity"
    /\ \/ /\ carts' = SaveDoc(carts, cart[p])
          /\ pc' = [pc EXCEPT ![p] = "populate"]
          /\ UNCHANGED <<cart, saveState, resp, storeFailed, faults, reqVars, addsDone>>
       \/ Reject(p)

\* const populatedCart = await cart.populate("items.product"); res.json(...)
updateQuantity_populate(p) ==
    /\ pc[p] = "populate" /\ op[p] = "UpdateQuantity"
    /\ \/ /\ Respond(p, "ok", cart[p].items)
          /\ UNCHANGED <<carts, cart, saveState, storeFailed, faults, reqVars, addsDone>>
       \/ Reject(p)

updateQuantity(p) ==
    \/ updateQuantity_findOne(p)
    \/ updateQuantity_save(p)
    \/ updateQuantity_populate(p)

\* ---------------------------------------------------------------- reomveItem

reomveItem_findOne_create(p) ==
    /\ pc[p] = "findOne" /\ op[p] = "RemoveItem"
    /\ \/ /\ \E c \in FindOne(userId[p]) :
               IF c = NoCart
               THEN /\ carts' = carts \cup {NewCart(userId[p])}
                    /\ cart' = [cart EXCEPT ![p] =
                          [id |-> NewCart(userId[p]).id, items |-> <<>>]]
                    /\ pc' = [pc EXCEPT ![p] = "save"]
                    /\ UNCHANGED resp
               ELSE /\ cart' = [cart EXCEPT ![p] =
                          [c EXCEPT !.items = PullItem(c.items, productId[p])]]
                    /\ pc' = [pc EXCEPT ![p] = "save"]
                    /\ UNCHANGED <<resp, carts>>
          /\ UNCHANGED <<saveState, storeFailed, faults, reqVars, addsDone>>
       \/ Reject(p)

\* let cart = await Cart.findOne({ userId }); 404 without a cart; else
\* cart.items.pull({ product: productId }) and await cart.save().
reomveItem_findOne(p) ==
    /\ pc[p] = "findOne" /\ op[p] = "RemoveItem"
    /\ \/ /\ \E c \in FindOne(userId[p]) :
               IF c = NoCart
               THEN /\ Respond(p, "notfound", <<>>)
                    /\ UNCHANGED cart
               ELSE /\ cart' = [cart EXCEPT ![p] =
                          [c EXCEPT !.items = PullItem(c.items, productId[p])]]
                    /\ pc' = [pc EXCEPT ![p] = "save"]
                    /\ UNCHANGED resp
          /\ UNCHANGED <<carts, saveState, storeFailed, faults, reqVars, addsDone>>
       \/ Reject(p)

\* await cart.save()
reomveItem_save(p) ==
    /\ pc[p] = "save" /\ op[p] = "RemoveItem"
    /\ \/ /\ carts' = SaveDoc(carts, cart[p])
          /\ pc' = [pc EXCEPT ![p] = "populate"]
          /\ UNCHANGED <<cart, saveState, resp, storeFailed, faults, reqVars, addsDone>>
       \/ Reject(p)

\* const populatedCart = await cart.populate("items.product"); res.json(...)
reomveItem_populate(p) ==
    /\ pc[p] = "populate" /\ op[p] = "RemoveItem"
    /\ \/ /\ Respond(p, "ok", cart[p].items)
          /\ UNCHANGED <<carts, cart, saveState, storeFailed, faults, reqVars, addsDone>>
       \/ Reject(p)

reomveItem(p) ==
    \/ reomveItem_findOne(p)
    \/ reomveItem_save(p)
    \/ reomveItem_populate(p)

\* ---------------------------------------------------------------- getShopProducts

\* if (x): undefined and the empty string are falsy.
Truthy(s) == s # Undefined /\ s # <<>>

\* if (typeof categorySlugRaw === "string") categorySlug = categorySlugRaw.toLowerCase()
CategorySlug(raw) == IF raw = Undefined THEN Undefined ELSE ToLowerCase(raw)

\* The Category schema casts a slug in a query filter: lower case, trimmed.
CategoryCast(s) == Trim(ToLowerCase(s))

ColorCastNoTrim(s) == ToLowerCase(s)

\* colorSchema casts a slug in a query filter: lowercase: true, trim: true.
ColorCast(s) == Trim(ToLowerCase(s))

\* Category.findOne({ slug: categorySlug.toString().toLowerCase() }): the _id
\* found, 0 for null.
FindCategory(slug) ==
    LET hit == {c \in Categories : c.slug = CategoryCast(ToLowerCase(slug))}
    IN  IF hit = {} THEN 0 ELSE (CHOOSE c \in hit : TRUE).id

\* Color.findOne({ slug: color.toString().toLowerCase() }): the _id found, 0
\* for null.
FindColor(color) ==
    LET hit == {c \in Colors : c.slug = ColorCast(ToLowerCase(color))}
    IN  IF hit = {} THEN 0 ELSE (CHOOSE c \in hit : TRUE).id

MatchesIgnoringExclude(d, f) ==
    /\ f.categoryId # 0 => d.categoryId = f.categoryId
    /\ f.colorId # 0 => d.colorId = f.colorId

\* The documents a query with `filter` selects: _id $ne exclude, categoryId,
\* colorId, each only when set.
Matches(d, f) ==
    /\ f.exclude # 0 => d.id # f.exclude
    /\ f.categoryId # 0 => d.categoryId = f.categoryId
    /\ f.colorId # 0 => d.colorId = f.colorId

\* The createdAt field of a stored product: productSchema has none.
DocCreatedAt(d) == 0

\* sortOption: price 1, price -1, or createdAt -1.  The key a document is
\* ordered by, smallest first.
SortKey(d, sort) ==
    IF sort = "price_asc" THEN d.price
    ELSE IF sort = "price_desc" THEN 0 - d.price
    ELSE 0 - DocCreatedAt(d)

\* Product.find(filter).sort(sortOption): the orders the store may return the
\* selected documents in.  Documents with equal keys come in any order.
SortedOrders(docs, sort) ==
    {f \in [1..Cardinality(docs) -> docs] :
        /\ \A i, j \in 1..Cardinality(docs) : i # j => f[i] # f[j]
        /\ \A i, j \in 1..Cardinality(docs) :
              i < j => SortKey(f[i], sort) <= SortKey(f[j], sort)}

\* .skip(skip).limit(perPage)
PageOf(seq, skip, perPage) == SubSeq(seq, skip + 1, Min(skip + perPage, Len(seq)))

ListRespond(products, pagination) ==
    /\ lresp' = [status |-> "ok", products |-> products, pagination |-> pagination]
    /\ lpc' = "done"

\* An awaited store call of getShopProducts rejects: next(error).
ListReject ==
    /\ faults < MaxFaults
    /\ faults' = faults + 1
    /\ lresp' = [NoListResp EXCEPT !.status = "fault"]
    /\ lpc' = "done"
    /\ UNCHANGED <<catalog, lreq, lfilter, lprev, cartVars>>

\* if (categorySlug) { categoryDoc = await Category.findOne(...); on a miss
\* answer the empty page }
getShopProducts_category ==
    /\ lpc = "category"
    /\ \/ /\ IF ~Truthy(CategorySlug(lreq.slug))
             THEN /\ lpc' = "color"
                  /\ UNCHANGED <<lfilter, lresp>>
             ELSE IF FindCategory(CategorySlug(lreq.slug)) # 0
             THEN /\ lfilter' = [lfilter EXCEPT
                                   !.categoryId = FindCategory(CategorySlug(lreq.slug))]
                  /\ lpc' = "color"
                  /\ UNCHANGED lresp
             ELSE /\ ListRespond(<<>>, [total |-> 0, page |-> 1, perPage |-> 24,
                                        totalPages |-> 0])
                  /\ UNCHANGED lfilter
          /\ UNCHANGED <<catalog, lreq, lprev, faults, cartVars>>
       \/ Truthy(CategorySlug(lreq.slug)) /\ ListReject

getShopProducts_color_strict ==
    /\ lpc = "color"
    /\ \/ /\ IF Truthy(lreq.color) /\ FindColor(lreq.color) = 0
             THEN /\ ListRespond(<<>>, [total |-> 0, page |-> 1, perPage |-> 24,
                                        totalPages |-> 0])
                  /\ UNCHANGED lfilter
             ELSE /\ lfilter' = IF Truthy(lreq.color)
                                 THEN [lfilter EXCEPT !.colorId = FindColor(lreq.color)]
                                 ELSE lfilter
                  /\ lpc' = "query"
                  /\ UNCHANGED lresp
          /\ UNCHANGED <<catalog, lreq, lprev, faults, cartVars>>
       \/ Truthy(lreq.color) /\ ListReject

\* if (color) { colorDoc = await Color.findOne(...); if (colorDoc) filter.colorId = ... }
getShopProducts_color ==
    /\ lpc = "color"
    /\ \/ /\ lfilter' = IF Truthy(lreq.color) /\ FindColor(lreq.color) # 0
                         THEN [lfilter EXCEPT !.colorId = FindColor(lreq.color)]
                         ELSE lfilter
          /\ lpc' = "query"
          /\ UNCHANGED <<catalog, lreq, lresp, lprev, faults, cartVars>>
       \/ Truthy(lreq.color) /\ ListReject

\* total = await Product.countDocuments(filter); products = await
\* Product.find(filter).populate("colorId").sort(...).skip(skip).limit(perPage);
\* res.json({ products, pagination })
getShopProducts_find ==
    /\ lpc = "query"
    /\ \/ /\ LET docs == {d \in catalog : Matches(d, lfilter)}
                 total == Cardinality(docs)
             IN  \E order \in SortedOrders(docs, lreq.sort) :
                    ListRespond(
                        PageOf(order, Skip(lreq.page, lreq.limit), PerPage(lreq.limit)),
                        [total |-> total,
                         page |-> PageNum(lreq.page),
                         perPage |-> PerPage(lreq.limit),
                         totalPages |-> TotalPages(total, PerPage(lreq.limit))])
          /\ UNCHANGED <<catalog, lreq, lfilter, lprev, faults, cartVars>>
       \/ ListReject

getShopProducts ==
    \/ getShopProducts_category
    \/ getShopProducts_color
    \/ getShopProducts_find

\* The pages a client asks for when it pages through a listing.
NextPages == {<<"2">>, <<"3">>}

\* The client asks for another page of the listing it was just answered, the
\* first time it is answered: the same request with another page.
ListPage ==
    /\ lpc = "done" /\ lresp.status = "ok"
    /\ lprev = NoListResp
    /\ \E pg \in NextPages :
          /\ pg # lreq.page
          /\ lreq' = [lreq EXCEPT !.page = pg]
    /\ lprev' = lresp
    /\ lresp' = NoListResp
    /\ lfilter' = [NoFilter EXCEPT !.exclude = lreq.exclude]
    /\ lpc' = "category"
    /\ UNCHANGED <<catalog, faults, cartVars>>

\* ---------------------------------------------------------------- specifications

Handler(p) == getCart(p) \/ addToCart(p) \/ updateQuantity(p) \/ reomveItem(p)

\* Requests arrive at any time: handlers of different requests interleave at
\* their awaits.
Next == \E p \in Procs : Request(p) \/ Handler(p)

Spec == Init /\ [][Next]_vars

\* One request at a time: a request arrives only when every earlier one has
\* answered and its save has settled.
NextSeq == \E p \in Procs : RequestSeq(p) \/ Handler(p)

SpecSeq == Init /\ [][NextSeq]_vars

\* ---------------------------------------------------------------- properties

\* The items of user u's cart in a store, empty when u has no cart.
ItemsOf(store, u) ==
    IF \E c \in store : c.userId = u
    THEN (CHOOSE c \in store : c.userId = u).items
    ELSE <<>>

Present(store, u) == \E c \in store : c.userId = u

\* The quantity stored for product p, 0 when no item refers to p.
QuantityOf(items, p) ==
    IF FindItem(items, p) = 0 THEN 0 ELSE items[FindItem(items, p)].quantity

\* C1: no stored cart holds two items with the same productRef, in every
\* reachable state of every interleaving of Get, Add, UpdateQuantity, RemoveItem.
C1_UniqueProductRef ==
    \A c \in carts : \A i, j \in 1..Len(c.items) :
        i # j => c.items[i].product # c.items[j].product

\* Two Add requests of one product for one user are in flight together: the
\* save of one has landed, the other's is pending, and the cart holds the product.
C1_Witness ==
    \E p, q \in Procs :
        /\ p # q
        /\ op[p] = "Add" /\ op[q] = "Add"
        /\ userId[p] = userId[q] /\ productId[p] = productId[q]
        /\ saveState[p] = "ok" /\ saveState[q] = "pending"
        /\ QuantityOf(ItemsOf(carts, userId[p]), productId[p]) >= 1

\* C2: after n completed Add(p) requests of a user, in any interleaving and
\* with no other mutation of that cart, the stored quantity of p is exactly n.
C2_NoLostIncrement ==
    \A u \in Users, p \in Products :
        (Quiet /\ faults = 0 /\ ~otherMut[u])
            => QuantityOf(ItemsOf(carts, u), p) = addsDone[u][p]

\* The items an Add(p) must leave, stated on the items before it.
ExpectedAdd(items, p) ==
    IF \E i \in 1..Len(items) : items[i].product = p
    THEN [i \in 1..Len(items) |->
            IF items[i].product = p
            THEN CartItem(p, items[i].quantity + 1)
            ELSE items[i]]
    ELSE items \o <<CartItem(p, 1)>>

\* C3: an Add(p) run to completion without interleaving adds 1 to the quantity
\* of the item for p, or appends {p, 1} at the end when there is none, and
\* leaves every other item and the order as they were.
C3_AddEffect ==
    \A p \in Procs :
        (latest = p /\ pc[p] = "done" /\ op[p] = "Add" /\ saveState[p] = "ok")
            => /\ ItemsOf(carts, userId[p]) =
                    ExpectedAdd(ItemsOf(pre, userId[p]), productId[p])
               /\ resp[p].status = "ok" =>
                    resp[p].body = ExpectedAdd(ItemsOf(pre, userId[p]), productId[p])

\* An Add has completed on a cart of two items, one of them the product added.
C3_Witness ==
    \E p \in Procs :
        /\ latest = p /\ pc[p] = "done" /\ op[p] = "Add" /\ saveState[p] = "ok"
        /\ Len(ItemsOf(pre, userId[p])) = 2
        /\ QuantityOf(ItemsOf(carts, userId[p]), productId[p]) = 2

\* C4: the store holds at most one cart per userId, also after concurrent
\* first-access Get and Add requests of one user.
C4_OneCartPerUser ==
    \A u \in Users : Cardinality(Found(u)) <= 1

\* Two first-access requests of one user raced: both found no cart, one
\* created it, and the other's create was rejected.
C4_Witness ==
    \E p, q \in Procs :
        /\ p # q /\ userId[p] = userId[q]
        /\ resp[p].status = "fault" /\ storeFailed[p] /\ faults = 0
        /\ cart[p] = NoCart
        /\ cart[q] # NoCart /\ op[q] \in {"Get", "Add"}
        /\ Present(carts, userId[p])

\* C5: UpdateQuantity answers NotFound when the user has no cart and when the
\* cart holds no item for the product; in both cases the store is unchanged.
C5_UpdateNotFound ==
    [][\A p \in Procs :
        ( /\ pc[p] = "findOne" /\ op[p] = "UpdateQuantity"
          /\ pc'[p] # "findOne"
          /\ faults' = faults
          /\ FindItem(ItemsOf(carts, userId[p]), productId[p]) = 0 )
        => ( /\ resp'[p].status = "notfound"
             /\ pc'[p] = "done"
             /\ saveState'[p] = "none"
             /\ carts' = carts )]_vars

\* An UpdateQuantity was answered NotFound on a cart that exists and does not
\* hold the product.
C5_Witness ==
    \E p \in Procs :
        /\ op[p] = "UpdateQuantity" /\ resp[p].status = "notfound"
        /\ cart[p] # NoCart
        /\ Present(carts, userId[p])

\* The items a RemoveItem(p) must leave, stated on the items before it.
ExpectedRemove(items, p) ==
    SelectSeq(items, LAMBDA it : ~(it.product = p))

\* C6: RemoveItem on an existing cart succeeds whenever the store does: it
\* removes the item for the product, leaves every other item as it was, and
\* with no such item leaves the list unchanged and reports no error.
C6_RemoveEffect ==
    \A p \in Procs :
        ( /\ latest = p /\ pc[p] = "done" /\ op[p] = "RemoveItem"
          /\ Present(pre, userId[p]) )
        => \/ storeFailed[p] /\ resp[p].status = "fault"
           \/ /\ ~storeFailed[p]
              /\ resp[p].status = "ok"
              /\ resp[p].body = ExpectedRemove(ItemsOf(pre, userId[p]), productId[p])
              /\ ItemsOf(carts, userId[p]) = resp[p].body

\* A RemoveItem has succeeded on a cart of two items, one of them the product
\* removed.
C6_Witness ==
    \E p \in Procs :
        /\ latest = p /\ pc[p] = "done" /\ op[p] = "RemoveItem"
        /\ resp[p].status = "ok"
        /\ Len(ItemsOf(pre, userId[p])) = 2
        /\ FindItem(ItemsOf(pre, userId[p]), productId[p]) # 0

\* C7: a cart becomes Present only by the create of a Get or an Add;
\* UpdateQuantity and RemoveItem on an Absent cart answer NotFound and leave it
\* Absent; a Present cart stays Present.
C7_AbsentToPresent ==
    [][\A u \in Users :
        /\ Present(carts, u) => Present(carts', u)
        /\ (~Present(carts, u) /\ Present(carts', u))
              => \E p \in Procs :
                    /\ userId[p] = u /\ op[p] \in {"Get", "Add"}
                    /\ pc[p] = "create" /\ pc'[p] # "create"
        /\ \A p \in Procs :
              ( /\ userId[p] = u /\ op[p] \in {"UpdateQuantity", "RemoveItem"}
                /\ pc[p] = "findOne" /\ pc'[p] # "findOne"
                /\ faults' = faults
                /\ ~Present(carts, u) )
              => resp'[p].status = "notfound" /\ ~Present(carts', u)]_vars

\* A RemoveItem was answered NotFound for a user who still has no cart, while
\* another user's cart has been created.
C7_Witness ==
    \E p \in Procs, u \in Users :
        /\ op[p] = "RemoveItem" /\ resp[p].status = "notfound"
        /\ ~Present(carts, userId[p])
        /\ Present(carts, u)

\* The items an UpdateQuantity(p, q) must leave, stated on the items before it.
ExpectedUpdate(items, p, q) ==
    [i \in 1..Len(items) |->
        IF items[i].product = p THEN CartItem(p, q) ELSE items[i]]

\* C8: a successful UpdateQuantity(p, q) stores exactly q for the item of p,
\* unclamped, and leaves every other item and every other user's cart as it was.
C8_UpdateEffect ==
    \A p \in Procs :
        (latest = p /\ pc[p] = "done" /\ op[p] = "UpdateQuantity" /\ resp[p].status = "ok")
        => /\ ItemsOf(carts, userId[p]) =
                ExpectedUpdate(ItemsOf(pre, userId[p]), productId[p], quantity[p])
           /\ resp[p].body = ItemsOf(carts, userId[p])
           /\ QuantityOf(ItemsOf(carts, userId[p]), productId[p]) = quantity[p]
           /\ {c \in carts : c.userId # userId[p]} = {c \in pre : c.userId # userId[p]}

\* An UpdateQuantity with a quantity below 1 has succeeded on a cart of two items.
C8_Witness ==
    \E p \in Procs :
        /\ latest = p /\ pc[p] = "done" /\ op[p] = "UpdateQuantity"
        /\ resp[p].status = "ok"
        /\ quantity[p] < 1
        /\ Len(ItemsOf(pre, userId[p])) = 2

\* C9: every item of every stored cart has a quantity of at least 1.
C9_PositiveQuantity ==
    \A c \in carts : \A i \in 1..Len(c.items) : c.items[i].quantity >= 1

\* C10: a request one of whose store calls failed never ends with a success
\* response.
C10_FaultPropagates ==
    \A p \in Procs : storeFailed[p] => resp[p].status # "ok"

\* C19: a mutating cart operation answers with a cart only after its mutation
\* is stored: once Add, UpdateQuantity or RemoveItem has answered, the stored
\* cart of the user holds the items of the response.
C19_PersistedBeforeResponse ==
    \A p \in Procs :
        ( /\ latest = p /\ op[p] \in {"Add", "UpdateQuantity", "RemoveItem"}
          /\ resp[p].status = "ok"
          /\ faults = 0 )
        => ItemsOf(carts, userId[p]) = resp[p].body

\* ---------------------------------------------------------------- listing

\* Raw page and limit parameters: not sent, not a number, zero, negative, in
\* range, large, and digits followed or preceded by other characters.
PageRaws ==
    {Undefined, <<"a">>, <<"0">>, <<"-", "1">>, <<"1">>, <<"2">>, <<"3">>,
     <<"2", "5", "0">>, <<" ", "2", "x">>}
LimitRaws ==
    {Undefined, <<"a">>, <<"0">>, <<"-", "5">>, <<"1">>, <<"2">>,
     <<"1", "0", "0">>, <<"1", "0", "1">>, <<"2", "5", "0">>, <<"7", "x">>}
SlugRaws == {Undefined, <<"a">>, <<" ", "A">>, <<"x">>}
ColorRaws == {Undefined, <<"r">>, <<"R", " ">>, <<"x">>}
SortRaws == {"undefined", "price_asc", "price_desc", "newest"}

\* Requests that vary the pagination parameters and the sort, with no
\* category and with one that does not resolve.
PagingRequests ==
    [slug : {Undefined, <<"x">>}, color : {Undefined},
     sort : {"undefined", "price_asc", "price_desc"},
     page : PageRaws, limit : LimitRaws, exclude : {0}]

\* Requests that vary the filter and the sort, on pages of one product.
FilterRequests ==
    [slug : SlugRaws, color : ColorRaws, sort : SortRaws,
     page : {Undefined}, limit : {<<"1">>}, exclude : {0, 1}]

\* Catalogs whose products all fall under one category and have no color.
PagingCatalogs == {c \in Catalogs : \A d \in c : d.categoryId = 1 /\ d.colorId = 0}

\* A catalog is in place and one listing request has been received
\* (exclude, when sent, is the id of a product).
InitList ==
    /\ carts = {}
    /\ pc = [p \in Procs |-> "idle"]
    /\ op = [p \in Procs |-> "Get"]
    /\ userId = [p \in Procs |-> "u1"]
    /\ productId = [p \in Procs |-> "p1"]
    /\ quantity = [p \in Procs |-> 0]
    /\ cart = [p \in Procs |-> NoCart]
    /\ saveState = [p \in Procs |-> "none"]
    /\ resp = [p \in Procs |-> NoResp]
    /\ storeFailed = [p \in Procs |-> FALSE]
    /\ started = 0
    /\ faults = 0
    /\ latest = 1
    /\ pre = {}
    /\ addsDone = [u \in Users |-> [p \in Products |-> 0]]
    /\ otherMut = [u \in Users |-> FALSE]
    /\ \/ catalog \in Catalogs /\ lreq \in FilterRequests
       \/ catalog \in PagingCatalogs /\ lreq \in PagingRequests
    /\ lpc = "category"
    /\ lfilter = [NoFilter EXCEPT !.exclude = lreq.exclude]
    /\ lresp = NoListResp
    /\ lprev = NoListResp

NextList == getShopProducts \/ ListPage

SpecList == InitList /\ [][NextList]_vars

\* ---------------------------------------------------------------- listing properties

Answered == lpc = "done" /\ lresp.status = "ok"

\* A request slug that differs from the stored slug s only by letter case or
\* by leading and trailing spaces.
SameSlug(raw, s) ==
    \E i \in 0..Len(raw) : \E j \in i..Len(raw) :
        /\ \A k \in 1..i : raw[k] = " "
        /\ \A k \in (j + 1)..Len(raw) : raw[k] = " "
        /\ ToLowerCase(SubSeq(raw, i + 1, j)) = s

\* The request names a category and no stored category carries that slug.
UnknownCategory == Truthy(lreq.slug) /\ \A c \in Categories : ~SameSlug(lreq.slug, c.slug)
UnknownColor == Truthy(lreq.color) /\ \A c \in Colors : ~SameSlug(lreq.color, c.slug)

\* The products a request is expected to select: those of the category named
\* (when one is named), of the color named (when `withColor` and one is
\* named), other than the excluded one.
ExpectedDocs(withColor) ==
    {d \in catalog :
        /\ Truthy(lreq.slug) =>
              \E c \in Categories : SameSlug(lreq.slug, c.slug) /\ d.categoryId = c.id
        /\ (withColor /\ Truthy(lreq.color)) =>
              \E c \in Colors : SameSlug(lreq.color, c.slug) /\ d.colorId = c.id
        /\ lreq.exclude # 0 => d.id # lreq.exclude}

Range(seq) == {seq[i] : i \in 1..Len(seq)}

\* C11: whatever the raw page and limit are, every listing response has
\* pagination.page >= 1 and 0 < pagination.perPage <= 100.
C11_PageBounds ==
    /\ PageNum(lreq.page) >= 1
    /\ PerPage(lreq.limit) > 0 /\ PerPage(lreq.limit) <= 100
    /\ Answered =>
          /\ lresp.pagination.page >= 1
          /\ lresp.pagination.perPage > 0
          /\ lresp.pagination.perPage <= 100

C11_Witness ==
    /\ Answered
    /\ lreq.slug = Undefined
    /\ lreq.limit = <<"2", "5", "0">>
    /\ lreq.page = <<"-", "1">>
    /\ lresp.pagination.perPage = 100
    /\ lresp.pagination.page = 1

\* C12: for every integer limit L supplied, the page size of the listing is
\* min(max(L, 1), 100), and it is 24 only when limit is absent or not a number.
C12_ClampedLimit ==
    (Answered /\ ~UnknownCategory /\ lreq.limit # Undefined /\ ~ParseInt(lreq.limit).nan)
        => lresp.pagination.perPage = Min(Max(ParseInt(lreq.limit).val, 1), 100)

\* C13: every listing response has totalPages = ceil(total / perPage), 0 when
\* total is 0, on the normal path and on the unknown-category path.
C13_TotalPages ==
    Answered =>
        /\ lresp.pagination.totalPages * lresp.pagination.perPage >= lresp.pagination.total
        /\ (lresp.pagination.totalPages - 1) * lresp.pagination.perPage
              < lresp.pagination.total
        /\ lresp.pagination.total = 0 => lresp.pagination.totalPages = 0

C13_Witness ==
    /\ Answered
    /\ lresp.pagination.total > 1
    /\ lresp.pagination.perPage > lresp.pagination.total
    /\ lresp.pagination.totalPages = 1

\* C14: a category slug that matches no category gives an empty list with
\* total 0; a color slug that matches no color gives the items and the total
\* of the same request without color.
C14_MissAsymmetry ==
    /\ (Answered /\ UnknownCategory) =>
          lresp.products = <<>> /\ lresp.pagination.total = 0
    /\ (Answered /\ ~UnknownCategory /\ UnknownColor) =>
          /\ lresp.pagination.total = Cardinality(ExpectedDocs(FALSE))
          /\ \E order \in SortedOrders(ExpectedDocs(FALSE), lreq.sort) :
                lresp.products =
                    PageOf(order, Skip(lreq.page, lreq.limit), PerPage(lreq.limit))

C14_Witness ==
    /\ Answered
    /\ lreq.slug = <<"a">>
    /\ lreq.color = <<"x">>
    /\ lresp.pagination.total > 0
    /\ lresp.products # <<>>

\* C15: with slugs that resolve, the products counted in total and returned
\* are those of the resolved category, of the resolved color and other than
\* the excluded product, and no others.
C15_FilterExact ==
    (Answered /\ ~UnknownCategory) =>
        /\ lresp.pagination.total = Cardinality(ExpectedDocs(~UnknownColor))
        /\ Range(lresp.products) \subseteq ExpectedDocs(~UnknownColor)

C15_Witness ==
    /\ Answered
    /\ Truthy(lreq.slug) /\ ~UnknownCategory
    /\ Truthy(lreq.color) /\ ~UnknownColor
    /\ lreq.exclude # 0
    /\ lresp.products # <<>>
    /\ \E d \in catalog : d.id = lreq.exclude /\ MatchesIgnoringExclude(d, lfilter)

\* C16: the items of a response are in the order of the sort: price
\* non-decreasing for price_asc, price non-increasing for price_desc, creation
\* time non-increasing for any other sort; an unknown sort is not an error.
C16_SortedBySortKey ==
    Answered =>
        \A i, j \in 1..Len(lresp.products) :
            i < j =>
                IF lreq.sort = "price_asc"
                THEN lresp.products[i].price <= lresp.products[j].price
                ELSE IF lreq.sort = "price_desc"
                THEN lresp.products[i].price >= lresp.products[j].price
                ELSE lresp.products[i].created >= lresp.products[j].created

\* C17: a page holds at most perPage items, a page beyond totalPages is
\* empty, and two different pages of one listing over the same catalog share
\* no product.
C17_PagesPartition ==
    /\ Answered => Len(lresp.products) <= lresp.pagination.perPage
    /\ (Answered /\ lresp.pagination.page > lresp.pagination.totalPages) =>
          lresp.products = <<>>
    /\ (Answered /\ lprev.status = "ok"
           /\ lprev.pagination.page # lresp.pagination.page) =>
          Range(lprev.products) \cap Range(lresp.products) = {}

\* C18: a category or color slug that differs from a stored slug only by
\* letter case or by leading and trailing spaces resolves to that entity.
C18_SlugInsensitive ==
    /\ \A c \in Categories :
          (lpc \in {"color", "query"} /\ Truthy(lreq.slug) /\ SameSlug(lreq.slug, c.slug))
              => lfilter.categoryId = c.id
    /\ \A c \in Colors :
          (lpc = "query" /\ Truthy(lreq.color) /\ SameSlug(lreq.color, c.slug))
              => lfilter.colorId = c.id

C18_Witness ==
    /\ lpc = "query"
    /\ lreq.slug = <<" ", "A">>
    /\ lreq.color = <<"R", " ">>
    /\ lfilter.categoryId = 1
    /\ lfilter.colorId = 1

\* C20: in every listing response, the unknown-category one included,
\* pagination.page is the coerced request page and pagination.perPage the
\* page size derived from the request limit.
C20_EchoesRequest ==
    Answered =>
        /\ lresp.pagination.page = PageNum(lreq.page)
        /\ lresp.pagination.perPage = PerPage(lreq.limit)

====
